---- MODULE Spec2Model ----
(***************************************************************************)
(* A model of two torchio transforms:                                      *)
(*   torchio/transforms/preprocessing/spatial/bounds_transform.py          *)
(*   torchio/transforms/lambda_transform.py                                *)
(*                                                                         *)
(* A tensor is abstracted to its shape, its dtype and one fill value       *)
(* (every voxel holds `val`).  An affine is abstracted to its origin, in   *)
(* voxel units (unit spacing, identity direction).                         *)
(***************************************************************************)
EXTENDS Integers, Sequences, FiniteSets, TLC

\* Longest bounds sequence handed to BoundsTransform(...).
MaxLen == 7
\* Bounds values are drawn from -MaxBound..MaxBound.
MaxBound == 1
\* Largest initial side of an image's voxel grid.
MaxDim == 3

VARIABLES
    transform,  \* the instance the last constructor call produced (NoTransform if it raised)
    sample,     \* the sample object the transforms are applied to
    start,      \* the sample as the loader built it
    op,         \* the last operation called
    arg,        \* the argument of the last BoundsTransform(...) call
    pre,        \* the sample as it was when the last apply_transform was called
    calls,      \* the calls the last apply_transform made to its collaborator, in order
    error,      \* the exception the last operation raised, "none" if it returned
    errvalue,   \* the value the exception's message names
    returned,   \* the ref of the object the last apply_transform returned, 0 if none
    clean       \* no apply_transform has raised so far

vars == <<transform, sample, start, op, arg, pre, calls, error, errvalue, returned, clean>>

(***************************************************************************)
(* Python values                                                           *)
(***************************************************************************)

\* A bounds argument: an int (not iterable) or a sequence of ints.
IntArg(n) == [iterable |-> FALSE, value |-> n, items |-> <<>>]
SeqArg(s) == [iterable |-> TRUE, value |-> 0, items |-> s]

Values == (0 - MaxBound)..MaxBound

\* The sequence of length k whose i-th element is a + b*i, folded into 0..MaxBound.
Ramp(k, a, b) == [i \in 1..k |-> (a + b * i) % (MaxBound + 1)]

\* The lengths parse_bounds accepts.
GoodLengths == {1, 3, 6}

\* The arguments the transforms are built from: every int; for every accepted length the
\* constant and the alternating sequences; for every other length one sequence.
SomeBoundsArgs ==
    {IntArg(n) : n \in Values}
    \cup {SeqArg(Ramp(k, a, b)) : k \in GoodLengths, a \in 0..MaxBound, b \in 0..1}
    \cup {SeqArg(Ramp(k, 0, 1)) : k \in 0..MaxLen}

(***************************************************************************)
(* BoundsTransform.parse_bounds                                            *)
(***************************************************************************)

\* tuple(bounds_parameters), and (bounds_parameters,) on TypeError.
AsTuple(bounds_parameters) ==
    IF bounds_parameters.iterable
    THEN bounds_parameters.items
    ELSE <<bounds_parameters.value>>

\* n * t for a tuple t.
TupleTimes(n, t) == [i \in 1..(n * Len(t)) |-> t[((i - 1) % Len(t)) + 1]]

\* A plausible slip: np.tile in place of np.repeat.
TileTwice(t) == TupleTimes(2, t)

\* tuple(np.repeat(t, 2).tolist())
RepeatTwice(t) == [i \in 1..(2 * Len(t)) |-> t[(i + 1) \div 2]]

Returns(v) == [raised |-> FALSE, value |-> v]
Raises(v) == [raised |-> TRUE, value |-> v]

\* A plausible slip: the final raise is missing and the tuple falls through.
parse_bounds_lenient(bounds_parameters) ==
    LET t == AsTuple(bounds_parameters)
        bounds_parameters_length == Len(t)
    IN  IF bounds_parameters_length = 6 THEN Returns(t)
        ELSE IF bounds_parameters_length = 1 THEN Returns(TupleTimes(6, t))
        ELSE IF bounds_parameters_length = 3 THEN Returns(RepeatTwice(t))
        ELSE Returns(t)

\* The canonical tuple, or the ValueError whose message names the tuple.
parse_bounds(bounds_parameters) ==
    LET t == AsTuple(bounds_parameters)
        bounds_parameters_length == Len(t)
    IN  IF bounds_parameters_length = 6 THEN Returns(t)
        ELSE IF bounds_parameters_length = 1 THEN Returns(TupleTimes(6, t))
        ELSE IF bounds_parameters_length = 3 THEN Returns(RepeatTwice(t))
        ELSE Raises(t)

(***************************************************************************)
(* Tensors, image dicts and samples                                        *)
(***************************************************************************)

Tensor(shape, dtype, val) == [isTensor |-> TRUE, shape |-> shape, dtype |-> dtype, val |-> val]

\* A value that is no torch.Tensor (a numpy array, a list, None, ...).
NotATensor == [isTensor |-> FALSE, shape |-> <<>>, dtype |-> "object", val |-> 0]

\* DATA is held as the sequence of its items DATA[0], DATA[1], ...; `form`
\* says whether the container is a Python list or itself a torch.Tensor (of
\* shape (len(DATA),) + DATA[0].shape), which decides what DATA[0] = x does.
ListOf(items) == [form |-> "list", items |-> items]

\* tensor.unsqueeze(0): a tensor whose only item along the new axis is `tensor`.
unsqueeze0(tensor) == [form |-> "tensor", items |-> <<tensor>>]

NoData == [form |-> "list", items |-> <<>>]

Affine(origin) == [origin |-> origin]

ImageDict(key, type, data, affine) ==
    [key |-> key, image |-> TRUE, TYPE |-> type, DATA |-> data, AFFINE |-> affine]

\* A sample entry that is no image dict.
OtherEntry(key) ==
    [key |-> key, image |-> FALSE, TYPE |-> "", DATA |-> NoData, AFFINE |-> Affine(<<>>)]

INTENSITY == "intensity"
LABEL == "label"

Cube(d) == <<d, d, d>>

\* DATA as the data model describes it: a length-1 list holding a (1, X, Y, Z) tensor.
ListData(d, val) == ListOf(<<Tensor(<<1>> \o Cube(d), "float32", val)>>)

\* DATA as line 58 of bounds_transform.py builds it: a (1, X, Y, Z) tensor.
TensorData(d, val) == unsqueeze0(Tensor(Cube(d), "float32", val))

MakeData(form, d, val) == IF form = "list" THEN ListData(d, val) ELSE TensorData(d, val)

Sample(entries) == [ref |-> 1, entries |-> entries]

\* The samples a loader hands over: an intensity image, an entry that is no
\* image, and a smaller label image; or no image at all.
InitSamples ==
    {Sample(<<ImageDict("mri", INTENSITY, MakeData(form, MaxDim, 1), Affine(Cube(0))),
              OtherEntry("meta"),
              ImageDict("seg", LABEL, MakeData(form, MaxDim - 1, 1), Affine(Cube(0)))>>)
        : form \in {"list", "tensor"}}
    \cup {Sample(<<OtherEntry("meta")>>)}

\* utils.is_image_dict
is_image_dict(image_dict) == image_dict.image

\* container[0]
GetItem0(container) == container.items[1]

\* Whether a tensor of shape `src` broadcasts to shape `dst`.
Broadcastable(src, dst) ==
    /\ Len(src) <= Len(dst)
    /\ \A i \in 1..Len(src) :
          LET s == src[i]
              d == dst[Len(dst) - Len(src) + i]
          IN  s = 1 \/ s = d

\* container[0] = result.  A list takes the object; a tensor copies the
\* values into its first slice (broadcast, cast to its own dtype) and raises
\* RuntimeError when the shapes do not broadcast.
SetItem0(container, result) ==
    IF container.form = "list"
    THEN Returns([container EXCEPT !.items[1] = result])
    ELSE IF Broadcastable(result.shape, container.items[1].shape)
         THEN Returns([container EXCEPT !.items[1].val = result.val])
         ELSE Raises(container)

(***************************************************************************)
(* Lambda                                                                  *)
(***************************************************************************)

\* types_to_apply: None, or a sequence of type tags.
None == [none |-> TRUE, types |-> <<>>]
Types(seq) == [none |-> FALSE, types |-> seq]

Elements(seq) == {seq[i] : i \in 1..Len(seq)}

\* The user functions tried.
Functions ==
    {"identity",      \* lambda x: x
     "neg",           \* lambda x: -x
     "double",        \* lambda x: x.double()
     "first",         \* lambda x: x[0]
     "first_double",  \* lambda x: x[0].double()
     "numpy",         \* lambda x: x.numpy()
     "twice",         \* lambda x: torch.cat([x[:1], x[:1]])
     "neg_positive"}  \* lambda x: -x if x.min() > 0 else x.double()

\* function(x)
Call(function, x) ==
    CASE function = "identity" -> x
      [] function = "neg" -> [x EXCEPT !.val = 0 - x.val]
      [] function = "double" -> [x EXCEPT !.dtype = "float64"]
      [] function = "first" -> [x EXCEPT !.shape = Tail(x.shape)]
      [] function = "first_double" -> [x EXCEPT !.shape = Tail(x.shape), !.dtype = "float64"]
      [] function = "numpy" -> NotATensor
      [] function = "twice" -> [x EXCEPT !.shape = <<2>> \o Tail(x.shape)]
      [] function = "neg_positive" ->
            IF x.val > 0 THEN [x EXCEPT !.val = 0 - x.val] ELSE [x EXCEPT !.dtype = "float64"]

Lambda(function, types_to_apply) ==
    [cls |-> "Lambda", function |-> function, types_to_apply |-> types_to_apply,
     bounds_parameters |-> <<>>]

NoTransform ==
    [cls |-> "None", function |-> "", types_to_apply |-> None, bounds_parameters |-> <<>>]

\* A plausible slip: the type filter is ignored.
SkipsNothing(self, image_dict) == FALSE

\* Lines 42-44: the image is skipped when its type is filtered out.
SkipsType(self, image_dict) ==
    /\ ~self.types_to_apply.none
    /\ image_dict.TYPE \notin Elements(self.types_to_apply.types)

\* A plausible slip: the dimension check comes before the dtype check.
ValidateNdimFirst(result, function_arg) ==
    IF ~result.isTensor THEN "ValueError:type"
    ELSE IF Len(result.shape) # Len(function_arg.shape) THEN "ValueError:ndim"
    ELSE IF result.dtype # "float32" THEN "ValueError:dtype"
    ELSE "none"

\* Lines 48-65: the error the checks of the result raise, "none" if they pass.
Validate(result, function_arg) ==
    IF ~result.isTensor THEN "ValueError:type"
    ELSE IF result.dtype # "float32" THEN "ValueError:dtype"
    ELSE IF Len(result.shape) # Len(function_arg.shape) THEN "ValueError:ndim"
    ELSE "none"

Outcome(entries, callseq, err) == [entries |-> entries, calls |-> callseq, error |-> err]

\* The loop of Lambda.apply_transform from the i-th entry on.
RECURSIVE LambdaLoop(_, _, _, _)
LambdaLoop(self, entries, i, callseq) ==
    IF i > Len(entries) THEN Outcome(entries, callseq, "none")
    ELSE
        LET image_dict == entries[i] IN
        IF ~is_image_dict(image_dict) THEN LambdaLoop(self, entries, i + 1, callseq)
        ELSE IF SkipsType(self, image_dict) THEN LambdaLoop(self, entries, i + 1, callseq)
        ELSE
            LET function_arg == GetItem0(image_dict.DATA)
                result == Call(self.function, function_arg)
                called == Append(callseq, [key |-> image_dict.key, arg |-> function_arg,
                                           result |-> result])
                invalid == Validate(result, function_arg)
                stored == SetItem0(image_dict.DATA, result)
            IN  IF invalid # "none" THEN Outcome(entries, called, invalid)
                ELSE IF stored.raised THEN Outcome(entries, called, "RuntimeError")
                ELSE LambdaLoop(self, [entries EXCEPT ![i].DATA = stored.value], i + 1, called)

\* A plausible slip: a failing call restores the sample (all or nothing).
Lambda_apply_transform_atomic(self, entries) ==
    LET out == LambdaLoop(self, entries, 1, <<>>)
    IN  IF out.error = "none" THEN out ELSE Outcome(entries, out.calls, out.error)

\* Lambda.apply_transform on the entries of a sample.
Lambda_apply_transform(self, entries) == LambdaLoop(self, entries, 1, <<>>)

(***************************************************************************)
(* Coordinate conversion and the bounds function                           *)
(***************************************************************************)

\* The sign of each physical axis in the image library, against the tensor side.
FLIP_XY == <<0 - 1, 0 - 1, 1>>

\* Transform.nib_to_sitk: the image of an array and its affine.  The origin
\* changes sign on two axes; the voxel grid keeps the array's axes.
nib_to_sitk(data, affine) ==
    [size |-> data.shape, dtype |-> data.dtype, val |-> data.val,
     origin |-> [i \in 1..3 |-> FLIP_XY[i] * affine.origin[i]]]

\* Transform.sitk_to_nib: the array and the affine of an image.
sitk_to_nib(image) ==
    [data |-> [shape |-> image.size, dtype |-> image.dtype, val |-> image.val],
     affine |-> Affine([i \in 1..3 |-> FLIP_XY[i] * image.origin[i]])]

\* torch.from_numpy
from_numpy(data) == Tensor(data.shape, data.dtype, data.val)

\* Crop's bounds function: removes low[i] and high[i] voxels at the two ends
\* of the i-th spatial axis (the last three axes of the grid) and moves the
\* origin to the first voxel kept.  It raises when a bound is negative or
\* no voxel would be left.
crop(image, low, high) ==
    LET n == Len(image.size)
        lead == n - 3
        size == [i \in 1..n |->
                    IF i <= lead THEN image.size[i]
                    ELSE image.size[i] - low[i - lead] - high[i - lead]]
        origin == [i \in 1..3 |-> image.origin[i] + FLIP_XY[i] * low[i]]
    IN  IF \/ \E i \in 1..3 : low[i] < 0 \/ high[i] < 0
           \/ \E i \in 1..n : size[i] < 1
        THEN Raises(image)
        ELSE Returns([image EXCEPT !.size = size, !.origin = origin])

(***************************************************************************)
(* BoundsTransform                                                         *)
(***************************************************************************)

\* An instance of BoundsTransform itself (cls = "BoundsTransform") or of
\* its subclass Crop.
BoundsClasses == {"BoundsTransform", "Crop"}

NewInstance(cls, bounds_parameters) ==
    [cls |-> cls, function |-> "", types_to_apply |-> None,
     bounds_parameters |-> bounds_parameters]

\* A plausible slip: the subclass's function is handed out by the base class too.
bounds_function_always(self) == Returns("crop")

\* The bounds_function property: NotImplementedError unless a subclass overrides it.
bounds_function(self) ==
    IF self.cls = "BoundsTransform" THEN Raises("NotImplementedError") ELSE Returns("crop")

\* A plausible slip: the first half of the tuple taken as low.
FirstHalf(bounds_parameters) ==
    [i \in 1..(Len(bounds_parameters) \div 2) |-> bounds_parameters[i]]

\* bounds_parameters[::2]
Low(bounds_parameters) ==
    [i \in 1..((Len(bounds_parameters) + 1) \div 2) |-> bounds_parameters[2 * i - 1]]

\* bounds_parameters[1::2]
High(bounds_parameters) ==
    [i \in 1..(Len(bounds_parameters) \div 2) |-> bounds_parameters[2 * i]]

\* A plausible slip: the whole entry is rebuilt and its type lost.
StoreFresh(image_dict, tensor, affine) == ImageDict(image_dict.key, "", tensor, affine)

\* Lines 59-60: image_dict[DATA] = tensor; image_dict[AFFINE] = affine
Store(image_dict, tensor, affine) ==
    [image_dict EXCEPT !.DATA = tensor, !.AFFINE = affine]

\* The loop of BoundsTransform.apply_transform from the i-th entry on.
RECURSIVE BoundsLoop(_, _, _, _)
BoundsLoop(self, entries, i, callseq) ==
    IF i > Len(entries) THEN Outcome(entries, callseq, "none")
    ELSE
        LET image_dict == entries[i] IN
        IF ~is_image_dict(image_dict) THEN BoundsLoop(self, entries, i + 1, callseq)
        ELSE
            LET low == Low(self.bounds_parameters)
                high == High(self.bounds_parameters)
                image == nib_to_sitk(GetItem0(image_dict.DATA), image_dict.AFFINE)
                function == bounds_function(self)
                result == crop(image, low, high)
                called == Append(callseq, [key |-> image_dict.key, image |-> image,
                                           low |-> low, high |-> high])
                converted == sitk_to_nib(result.value)
                tensor == unsqueeze0(from_numpy(converted.data))
            IN  IF function.raised THEN Outcome(entries, callseq, function.value)
                ELSE IF result.raised THEN Outcome(entries, called, "RuntimeError")
                ELSE BoundsLoop(self,
                                [entries EXCEPT ![i] = Store(image_dict, tensor, converted.affine)],
                                i + 1, called)

\* BoundsTransform.apply_transform on the entries of a sample.
Bounds_apply_transform(self, entries) == BoundsLoop(self, entries, 1, <<>>)

(***************************************************************************)
(* The operations                                                          *)
(***************************************************************************)

NoArg == SeqArg(<<>>)

\* BoundsTransform(a) or Crop(a): __init__ parses the bounds and raises
\* what parse_bounds raises.
NewBoundsTransform(cls, a) ==
    LET parsed == parse_bounds(a) IN
    /\ transform' = IF parsed.raised THEN NoTransform ELSE NewInstance(cls, parsed.value)
    /\ op' = "BoundsTransform.__init__"
    /\ arg' = a
    /\ error' = IF parsed.raised THEN "ValueError:bounds" ELSE "none"
    /\ errvalue' = IF parsed.raised THEN parsed.value ELSE <<>>
    /\ pre' = sample
    /\ calls' = <<>>
    /\ returned' = 0
    /\ UNCHANGED <<sample, start, clean>>

\* Lambda(function, types_to_apply)
NewLambda(function, types_to_apply) ==
    /\ transform' = Lambda(function, types_to_apply)
    /\ op' = "Lambda.__init__"
    /\ arg' = NoArg
    /\ error' = "none"
    /\ errvalue' = <<>>
    /\ pre' = sample
    /\ calls' = <<>>
    /\ returned' = 0
    /\ UNCHANGED <<sample, start, clean>>

\* transform(sample) for a BoundsTransform
ApplyBounds ==
    /\ transform.cls \in BoundsClasses
    /\ LET out == Bounds_apply_transform(transform, sample.entries)
           after == [sample EXCEPT !.entries = out.entries]
       IN  /\ sample' = after
           /\ calls' = out.calls
           /\ error' = out.error
           /\ returned' = IF out.error = "none" THEN after.ref ELSE 0
           /\ clean' = (clean /\ out.error = "none")
    /\ op' = "BoundsTransform.apply_transform"
    /\ pre' = sample
    /\ errvalue' = <<>>
    /\ UNCHANGED <<transform, arg, start>>

\* transform(sample) for a Lambda
ApplyLambda ==
    /\ transform.cls = "Lambda"
    /\ LET out == Lambda_apply_transform(transform, sample.entries)
           after == [sample EXCEPT !.entries = out.entries]
       IN  /\ sample' = after
           /\ calls' = out.calls
           /\ error' = out.error
           /\ returned' = IF out.error = "none" THEN after.ref ELSE 0
           /\ clean' = (clean /\ out.error = "none")
    /\ op' = "Lambda.apply_transform"
    /\ pre' = sample
    /\ errvalue' = <<>>
    /\ UNCHANGED <<transform, arg, start>>

TypeFilters ==
    {None, Types(<<>>), Types(<<INTENSITY>>), Types(<<LABEL>>)}

Init ==
    /\ sample \in InitSamples
    /\ start = sample
    /\ pre = sample
    /\ transform = NoTransform
    /\ op = "init"
    /\ arg = NoArg
    /\ calls = <<>>
    /\ error = "none"
    /\ errvalue = <<>>
    /\ returned = 0
    /\ clean = TRUE

Next ==
    \/ \E cls \in BoundsClasses, a \in SomeBoundsArgs : NewBoundsTransform(cls, a)
    \/ \E function \in Functions, types_to_apply \in TypeFilters :
          NewLambda(function, types_to_apply)
    \/ ApplyBounds
    \/ ApplyLambda

Spec == Init /\ [][Next]_vars

\* parse_bounds alone, on every int and every sequence of ints within the bounds.
InitParse ==
    /\ sample = Sample(<<OtherEntry("meta")>>)
    /\ start = sample
    /\ pre = sample
    /\ transform = NoTransform
    /\ op = "init"
    /\ \/ \E n \in Values : arg = IntArg(n)
       \/ \E k \in 0..MaxLen : \E s \in [1..k -> Values] : arg = SeqArg(s)
    /\ calls = <<>>
    /\ error = "none"
    /\ errvalue = <<>>
    /\ returned = 0
    /\ clean = TRUE

NextParse == op = "init" /\ NewBoundsTransform("Crop", arg)

SpecParse == InitParse /\ [][NextParse]_vars

(***************************************************************************)
(* Properties                                                              *)
(***************************************************************************)

Indices(given) == 1..Len(given.entries)
ImageIndices(given) == {i \in Indices(given) : given.entries[i].image}
Item0(given, i) == given.entries[i].DATA.items[1]
Applied == op \in {"BoundsTransform.apply_transform", "Lambda.apply_transform"}

\* The calls made for the entry of key `key`.
CallsFor(key) == {k \in 1..Len(calls) : calls[k].key = key}

\* The three checks of a result, each on its own.
IsTensor(c) == c.result.isTensor
IsFloat32(c) == c.result.dtype = "float32"
SameNdim(c) == Len(c.result.shape) = Len(c.arg.shape)
Passes(c) == IsTensor(c) /\ IsFloat32(c) /\ SameNdim(c)

\* DATA[0] of entry i holds the values of `result`: a list holds the result
\* itself, a tensor holds its values in the slice's own shape and dtype.
HoldsResult(i, result) ==
    IF pre.entries[i].DATA.form = "list"
    THEN sample.entries[i].DATA = ListOf(<<result>>)
    ELSE /\ sample.entries[i].DATA.form = "tensor"
         /\ Len(sample.entries[i].DATA.items) = 1
         /\ Item0(sample, i) = [Item0(pre, i) EXCEPT !.val = result.val]

\* C1: parse_bounds maps an int n, and a length-1 sequence (n), to
\* (n,n,n,n,n,n), a length-3 sequence (a,b,c) to (a,a,b,b,c,c), and a
\* length-6 sequence to itself.
C1_ParseCanonical ==
    op = "BoundsTransform.__init__" =>
        LET bp == transform.bounds_parameters IN
        /\ ~arg.iterable =>
              error = "none" /\ bp = [i \in 1..6 |-> arg.value]
        /\ (arg.iterable /\ Len(arg.items) = 1) =>
              error = "none" /\ bp = [i \in 1..6 |-> arg.items[1]]
        /\ (arg.iterable /\ Len(arg.items) = 3) =>
              /\ error = "none"
              /\ bp = <<arg.items[1], arg.items[1], arg.items[2], arg.items[2],
                        arg.items[3], arg.items[3]>>
        /\ (arg.iterable /\ Len(arg.items) = 6) =>
              error = "none" /\ bp = arg.items

\* A length-3 sequence of three different values has been parsed.
C1_Witness ==
    /\ op = "BoundsTransform.__init__"
    /\ arg = SeqArg(<<1, 0, 0 - 1>>)
    /\ transform.bounds_parameters = <<1, 1, 0, 0, 0 - 1, 0 - 1>>

\* C2: a bounds argument whose length is not 1, 3 or 6 makes the constructor
\* raise a ValueError naming the value and leaves no instance; every
\* instance holds 6 bounds; and no apply raises the bounds-parsing error.
C2_FailFast ==
    /\ (op = "BoundsTransform.__init__" /\ Len(AsTuple(arg)) \notin {1, 3, 6}) =>
          /\ error = "ValueError:bounds"
          /\ errvalue = AsTuple(arg)
          /\ transform = NoTransform
    /\ transform.cls \in BoundsClasses => Len(transform.bounds_parameters) = 6
    /\ Applied => error # "ValueError:bounds"

\* The constructor has been called with a length-2 sequence and has raised.
C2_Witness ==
    /\ op = "BoundsTransform.__init__"
    /\ arg = SeqArg(<<1, 0>>)
    /\ error = "ValueError:bounds"
    /\ errvalue = <<1, 0>>

\* Every image of the sample starts with DATA a length-1 list holding a
\* tensor of shape (1, X, Y, Z).
StartsAsLists ==
    \A i \in ImageIndices(start) :
        /\ start.entries[i].DATA.form = "list"
        /\ Len(start.entries[i].DATA.items) = 1
        /\ Len(Item0(start, i).shape) = 4
        /\ Item0(start, i).shape[1] = 1

\* C3: after any sequence of successful applies on a sample that starts as
\* above, every image's DATA still has length 1 and DATA[0] still has 4
\* dimensions, the first of size 1.
C3_ShapeKept ==
    (StartsAsLists /\ clean) =>
        \A i \in ImageIndices(sample) :
            /\ Len(sample.entries[i].DATA.items) = 1
            /\ Len(Item0(sample, i).shape) = 4
            /\ Item0(sample, i).shape[1] = 1

ValidationErrors == {"ValueError:type", "ValueError:dtype", "ValueError:ndim"}

\* C4: Lambda checks each result in the order tensor, float32, number of
\* dimensions; the error raised is that of the first check that fails; and
\* an image's DATA changes only if its result passed all three.
C4_ValidationOrder ==
    op = "Lambda.apply_transform" =>
        /\ \A k \in 1..Len(calls) :
              LET c == calls[k] IN
              /\ k < Len(calls) => Passes(c)
              /\ k = Len(calls) =>
                    /\ ~IsTensor(c) => error = "ValueError:type"
                    /\ (IsTensor(c) /\ ~IsFloat32(c)) => error = "ValueError:dtype"
                    /\ (IsTensor(c) /\ IsFloat32(c) /\ ~SameNdim(c)) =>
                          error = "ValueError:ndim"
                    /\ Passes(c) => error \notin ValidationErrors
        /\ calls = <<>> => error = "none"
        /\ \A i \in Indices(sample) :
              sample.entries[i].DATA # pre.entries[i].DATA =>
                  \E k \in CallsFor(pre.entries[i].key) :
                      Passes(calls[k]) /\ HoldsResult(i, calls[k].result)

\* A result that is float64 and of the wrong number of dimensions has
\* been reported as a dtype error.
C4_Witness ==
    /\ op = "Lambda.apply_transform"
    /\ calls # <<>>
    /\ LET c == calls[Len(calls)] IN IsTensor(c) /\ ~IsFloat32(c) /\ ~SameNdim(c)
    /\ error = "ValueError:dtype"

\* The position in the sample of the image the last call was made for.
FailedAt ==
    CHOOSE i \in Indices(pre) : pre.entries[i].key = calls[Len(calls)].key

\* C5: when a check fails, the images processed earlier keep the result
\* committed to them, the failing image and every later entry are as they
\* were, and the function is not called for the later ones.
C5_NoRollback ==
    (op = "Lambda.apply_transform" /\ error \in ValidationErrors) =>
        /\ calls # <<>>
        /\ \A i \in Indices(pre) :
              /\ (i < FailedAt /\ CallsFor(pre.entries[i].key) # {}) =>
                    \A k \in CallsFor(pre.entries[i].key) :
                        HoldsResult(i, calls[k].result)
              /\ i >= FailedAt => sample.entries[i] = pre.entries[i]
              /\ i > FailedAt => CallsFor(pre.entries[i].key) = {}

\* The second image failed its check after the first one was changed.
C5_Witness ==
    /\ op = "Lambda.apply_transform"
    /\ error \in ValidationErrors
    /\ Len(calls) = 2
    /\ FailedAt = 3
    /\ Item0(sample, 1) # Item0(pre, 1)

\* The images a Lambda applies to.
Matching(self, given) ==
    {i \in ImageIndices(given) :
        \/ self.types_to_apply.none
        \/ \E j \in 1..Len(self.types_to_apply.types) :
              self.types_to_apply.types[j] = given.entries[i].TYPE}

\* C6: in a successful Lambda apply the function is called once for each
\* image whose type passes the filter, with its DATA[0], and for no other
\* entry; those images hold the result and every other entry is unchanged.
C6_OncePerMatch ==
    (op = "Lambda.apply_transform" /\ error = "none") =>
        LET matching == Matching(transform, pre) IN
        /\ Len(calls) = Cardinality(matching)
        /\ \A i \in matching :
              /\ Cardinality(CallsFor(pre.entries[i].key)) = 1
              /\ \A k \in CallsFor(pre.entries[i].key) :
                    /\ calls[k].arg = Item0(pre, i)
                    /\ HoldsResult(i, calls[k].result)
        /\ \A i \in Indices(pre) \ matching :
              /\ CallsFor(pre.entries[i].key) = {}
              /\ sample.entries[i] = pre.entries[i]

\* A Lambda filtered to intensity images has changed the intensity image
\* of a sample that also holds a label image.
C6_Witness ==
    /\ op = "Lambda.apply_transform"
    /\ error = "none"
    /\ transform.types_to_apply = Types(<<INTENSITY>>)
    /\ Len(calls) = 1
    /\ Item0(sample, 1) # Item0(pre, 1)
    /\ 3 \in ImageIndices(pre)

\* C7: no apply, successful or not, changes an image's TYPE, an entry that
\* is no image, or the keys of the sample; a Lambda apply changes no AFFINE.
C7_Frame ==
    /\ Len(sample.entries) = Len(start.entries)
    /\ \A i \in Indices(start) :
          /\ sample.entries[i].key = start.entries[i].key
          /\ sample.entries[i].image = start.entries[i].image
          /\ sample.entries[i].TYPE = start.entries[i].TYPE
          /\ ~start.entries[i].image => sample.entries[i] = start.entries[i]
    /\ op = "Lambda.apply_transform" =>
          \A i \in Indices(pre) : sample.entries[i].AFFINE = pre.entries[i].AFFINE

\* A Lambda apply has changed an image that an earlier BoundsTransform
\* apply had moved.
C7_Witness ==
    /\ op = "Lambda.apply_transform"
    /\ sample # pre
    /\ sample.entries[1].AFFINE # start.entries[1].AFFINE
    /\ Len(sample.entries) = 3

\* The last three axes of a shape, and the axes before them.
Spatial(shape) == SubSeq(shape, Len(shape) - 2, Len(shape))
Leading(shape) == SubSeq(shape, 1, Len(shape) - 3)

\* C8: a BoundsTransform apply that returns has called the bounds function
\* once per image with low = (bp[0], bp[2], bp[4]) and high = (bp[1],
\* bp[3], bp[5]) (both (n,n,n) when built from an int n, both (a,b,c) when
\* built from (a,b,c)), has stored the converted result as DATA and AFFINE,
\* and has returned the sample it was given.
C8_BoundsCalls ==
    (op = "BoundsTransform.apply_transform" /\ error = "none") =>
        LET bp == transform.bounds_parameters
            low == <<bp[1], bp[3], bp[5]>>
            high == <<bp[2], bp[4], bp[6]>>
        IN
        /\ Len(calls) = Cardinality(ImageIndices(pre))
        /\ \A k \in 1..Len(calls) : calls[k].low = low /\ calls[k].high = high
        /\ ~arg.iterable =>
              low = <<arg.value, arg.value, arg.value>> /\ high = low
        /\ (arg.iterable /\ Len(arg.items) = 3) => low = arg.items /\ high = arg.items
        /\ \A i \in ImageIndices(pre) :
              LET before == Item0(pre, i)
                  after == Item0(sample, i)
              IN
              /\ Cardinality(CallsFor(pre.entries[i].key)) = 1
              /\ \A k \in CallsFor(pre.entries[i].key) : calls[k].image.size = before.shape
              /\ sample.entries[i].DATA.form = "tensor"
              /\ Len(sample.entries[i].DATA.items) = 1
              /\ Leading(after.shape) = Leading(before.shape)
              /\ \A j \in 1..3 :
                    /\ Spatial(after.shape)[j] = Spatial(before.shape)[j] - low[j] - high[j]
                    /\ sample.entries[i].AFFINE.origin[j]
                          = pre.entries[i].AFFINE.origin[j] + low[j]
              /\ after.val = before.val /\ after.dtype = before.dtype
        /\ returned = pre.ref
        /\ sample.ref = pre.ref

\* A Crop built from (1,0,1,0,1,0) has been applied to two images.
C8_Witness ==
    /\ op = "BoundsTransform.apply_transform"
    /\ error = "none"
    /\ transform.bounds_parameters = <<1, 0, 1, 0, 1, 0>>
    /\ Len(calls) = 2
    /\ sample # pre

\* C9: the bounds an instance holds are 6 integers, none negative.
C9_NonNegative ==
    transform.cls \in BoundsClasses =>
        /\ Len(transform.bounds_parameters) = 6
        /\ \A i \in 1..6 : transform.bounds_parameters[i] >= 0

\* C10: applying a BoundsTransform whose bounds_function is not overridden
\* to a sample with an image raises NotImplementedError and leaves the
\* sample as it was.
C10_NotImplemented ==
    (/\ op = "BoundsTransform.apply_transform"
     /\ transform.cls = "BoundsTransform"
     /\ ImageIndices(pre) # {}) =>
        /\ error = "NotImplementedError"
        /\ sample = pre
        /\ calls = <<>>
        /\ returned = 0

\* The base class has been applied to a sample with two images.
C10_Witness ==
    /\ op = "BoundsTransform.apply_transform"
    /\ transform.cls = "BoundsTransform"
    /\ Cardinality(ImageIndices(pre)) = 2
    /\ error = "NotImplementedError"

====
